---- MODULE Spec2Model ----
(***************************************************************************)
(* Daily Routine Tracker (src/src/App.jsx): the store kept in React state, *)
(* the handlers that replace it, the asynchronous JSON import, the streak  *)
(* counter and the weekly chart (Spec); and the second App of              *)
(* src/src/components/ProgressCircle.jsx, built on updateStore and         *)
(* updateEntry (SpecV2).                                                   *)
(*                                                                         *)
(* Strings are sequences of one-character strings where the code looks     *)
(* inside them (day keys, titles, notes); JS null for a date is Null.      *)
(***************************************************************************)
EXTENDS Integers, Sequences, FiniteSets, TLC

VARIABLES
    store,      \* useState value: [data, template, streak, ...]
    todayKey,   \* const todayKey of the last render
    now,        \* the local clock, in ticks (Date.now())
    readers,    \* FileReaders in flight: <<[text, store]>>, store = the closure's
    exported,   \* the file written by the last exportJSON, or NoFile
    last,       \* the handler that last read the store to change it, and how it ended
    nops        \* handlers run so far

vars == <<store, todayKey, now, readers, exported, last, nops>>

---------------------------------------------------------------------------
\* Bounds of the model.

\* clock ticks per calendar day
TicksPerDay == 2
\* midnights the clock may pass after the session starts
MaxDays == 1
\* handlers the user may run in one session
MaxOps == 2

---------------------------------------------------------------------------
\* Generic helpers.

Null == <<>>

RECURSIVE SetToSeq(_)
SetToSeq(S) ==
    IF S = {} THEN <<>>
    ELSE LET x == CHOOSE y \in S : TRUE IN <<x>> \o SetToSeq(S \ {x})

RemoveAt(s, i) ==
    [j \in 1..(Len(s) - 1) |-> IF j < i THEN s[j] ELSE s[j + 1]]

\* items.find((x) => x.id === id): the first match, as its index (0: none)
FindIndex(items, id) ==
    IF \E i \in DOMAIN items : items[i].id = id
    THEN CHOOSE i \in DOMAIN items :
            items[i].id = id /\ \A j \in 1..(i - 1) : items[j].id # id
    ELSE 0

---------------------------------------------------------------------------
\* The local calendar behind JS Date: [y, mon (0-based), d].

Epoch == [y |-> 2023, mon |-> 11, d |-> 30]

IsLeap(y) == (y % 4 = 0 /\ y % 100 # 0) \/ y % 400 = 0

DaysInMonth(y, mon) ==
    IF mon = 1 THEN (IF IsLeap(y) THEN 29 ELSE 28)
    ELSE IF mon \in {3, 5, 8, 10} THEN 30 ELSE 31

NextDay(date) ==
    IF date.d < DaysInMonth(date.y, date.mon) THEN [date EXCEPT !.d = date.d + 1]
    ELSE IF date.mon < 11 THEN [date EXCEPT !.mon = date.mon + 1, !.d = 1]
    ELSE [y |-> date.y + 1, mon |-> 0, d |-> 1]

RECURSIVE AddDays(_, _)
AddDays(date, n) == IF n = 0 THEN date ELSE AddDays(NextDay(date), n - 1)

\* new Date() when the clock reads t
DateAt(t) == AddDays(Epoch, t \div TicksPerDay)

\* Date.prototype.setDate(v) for v <= the month's length: day 0 and below roll
\* back into the previous month
SetDate(date, v) ==
    IF v >= 1 THEN [date EXCEPT !.d = v]
    ELSE LET py == IF date.mon = 0 THEN date.y - 1 ELSE date.y
             pm == IF date.mon = 0 THEN 11 ELSE date.mon - 1
         IN [y |-> py, mon |-> pm, d |-> DaysInMonth(py, pm) + v]

DigitChar == <<"0", "1", "2", "3", "4", "5", "6", "7", "8", "9">>

\* String(n) for n >= 0
RECURSIVE NumStr(_)
NumStr(n) ==
    IF n < 10 THEN <<DigitChar[n + 1]>>
    ELSE NumStr(n \div 10) \o <<DigitChar[(n % 10) + 1]>>

\* s.padStart(2, "0")
PadStart2(s) == IF Len(s) < 2 THEN <<"0">> \o s ELSE s

\* getTodayKey(date): `${y}-${m}-${d}`
getTodayKey(date) ==
    NumStr(date.y) \o <<"-">> \o PadStart2(NumStr(date.mon + 1))
                   \o <<"-">> \o PadStart2(NumStr(date.d))

\* the day key of the d-th day after Epoch
KeyOfDay(d) == getTodayKey(AddDays(Epoch, d))

---------------------------------------------------------------------------
\* JSON text: either a document, the sequence of its top-level members
\* <<name, value>>, or text that is no JSON at all.

NotJSON == [syntaxOk |-> FALSE, members |-> <<>>]

\* JSON.stringify(obj)
JSONstringify(obj) ==
    LET keys == SetToSeq(DOMAIN obj)
    IN [syntaxOk |-> TRUE,
        members  |-> [i \in 1..Len(keys) |-> <<keys[i], obj[keys[i]]>>]]

\* JSONparse reading the "data" member as an empty object (a faulty variant)
JSONparseDropsData(text) ==
    [ok |-> text.syntaxOk,
     value |-> [k \in {text.members[i][1] : i \in DOMAIN text.members} |->
                  IF k = "data" THEN <<>>
                  ELSE LET i == CHOOSE j \in DOMAIN text.members :
                                    text.members[j][1] = k
                       IN text.members[i][2]]]

\* JSON.parse(text): ok = FALSE stands for the SyntaxError it throws
JSONparse(text) ==
    [ok |-> text.syntaxOk,
     value |-> [k \in {text.members[i][1] : i \in DOMAIN text.members} |->
                  LET i == CHOOSE j \in DOMAIN text.members :
                               text.members[j][1] = k
                                 /\ \A h \in DOMAIN text.members :
                                        text.members[h][1] = k => h <= j
                  IN text.members[i][2]]]

\* JSON.parse(JSON.stringify(x)), the deep copy the handlers take
Clone(x) == JSONparse(JSONstringify(x)).value

---------------------------------------------------------------------------
\* The store.

Item(id, title) == [id |-> id, title |-> title, done |-> FALSE]

defaultTemplate ==
    [morning    |-> << Item(<<"m", 1>>, <<"Wake & Hydrate">>),
                       Item(<<"m", 2>>, <<"Stretch / Walk 20m">>),
                       Item(<<"m", 3>>, <<"Shower & Get Ready">>) >>,
     dailyGoals |-> << Item(<<"g", 1>>, <<"Top 1 priority">>),
                       Item(<<"g", 2>>, <<"Coding / Learning 1 hour">>) >>,
     nutrition  |-> << [id |-> <<"n", 1>>, title |-> <<"Breakfast">>, notes |-> <<>>],
                       [id |-> <<"n", 2>>, title |-> <<"Lunch">>, notes |-> <<>>] >>,
     notes      |-> <<>>]

NoStreak == [lastDate |-> Null, days |-> 0]

DefaultStore == [data |-> <<>>, template |-> defaultTemplate, streak |-> NoStreak]

Sections == {"morning", "dailyGoals"}

\* obj[key] = value on a copy of obj
Put(obj, key, value) ==
    [k \in DOMAIN obj \cup {key} |-> IF k = key THEN value ELSE obj[k]]

\* { ...a, ...b }
Spread(a, b) ==
    [k \in DOMAIN a \cup DOMAIN b |-> IF k \in DOMAIN b THEN b[k] ELSE a[k]]

\* const today = store.data[todayKey] ?? copy of store.template
Today(s, key) == IF key \in DOMAIN s.data THEN s.data[key] ELSE Clone(s.template)

\* EnsureToday copying the built-in template, not the store's (a faulty variant)
EnsureTodayFromDefault(s, key) ==
    IF key \in DOMAIN s.data THEN s
    ELSE [s EXCEPT !.data = Put(s.data, key, defaultTemplate)]

\* updated.data[todayKey] || (updated.data[todayKey] = copy of updated.template)
EnsureToday(s, key) ==
    IF key \in DOMAIN s.data THEN s
    ELSE [s EXCEPT !.data = Put(s.data, key, Clone(s.template))]

AllDone(entry) ==
    /\ \A i \in DOMAIN entry.morning : entry.morning[i].done
    /\ \A i \in DOMAIN entry.dailyGoals : entry.dailyGoals[i].done

---------------------------------------------------------------------------
\* The operations of App, as functions of the store of the render they were
\* created in (s), that render's todayKey (key) and the clock (t).

\* toggleItem's ys: the key of new Date() set one day back, when the clock
\* reads t
yesterdayKey(t) == getTodayKey(SetDate(DateAt(t), DateAt(t).d - 1))

\* streakAfterToggle without the `prev.lastDate !== todayISO` test (a faulty
\* variant)
streakAfterToggleNoGuard(prev, key, t) ==
    LET yesterday == SetDate(DateAt(t), DateAt(t).d - 1)
        ys == getTodayKey(yesterday)
    IN [lastDate |-> key,
        days |-> IF prev.lastDate = ys THEN prev.days + 1 ELSE 1]

\* toggleItem, the allDone branch: the streak after a toggle that left every
\* item done
streakAfterToggle(prev, key, t) ==
    IF prev.lastDate # key
    THEN LET yesterday == SetDate(DateAt(t), DateAt(t).d - 1)
             ys == getTodayKey(yesterday)
         IN [lastDate |-> key,
             days |-> IF prev.lastDate = ys THEN prev.days + 1 ELSE 1]
    ELSE prev

\* updated.streak || { lastDate: null, days: 0 }
StreakOr(streak) == IF streak = Null THEN NoStreak ELSE streak

\* toggleItem with `target.done = true` for `target.done = !target.done` (a
\* faulty variant)
toggleItemSetsDone(s, key, t, section, id) ==
    LET updated == EnsureToday(Clone(s), key)
        entry == updated.data[key]
        i == FindIndex(entry[section], id)
    IN IF i = 0 THEN [found |-> FALSE, store |-> s]
       ELSE LET entry2 == [entry EXCEPT ![section][i].done = TRUE]
                updated2 == [updated EXCEPT !.data[key] = entry2]
            IN [found |-> TRUE,
                store |-> IF AllDone(entry2)
                          THEN [updated2 EXCEPT
                                  !.streak = streakAfterToggle(StreakOr(updated.streak),
                                                               key, t)]
                          ELSE updated2]

\* toggleItem(section, id): [found, store]; found = FALSE is the early return,
\* which never reaches setStore
toggleItem(s, key, t, section, id) ==
    LET updated == EnsureToday(Clone(s), key)
        entry == updated.data[key]
        i == FindIndex(entry[section], id)
    IN IF i = 0 THEN [found |-> FALSE, store |-> s]
       ELSE LET entry2 == [entry EXCEPT ![section][i].done = ~entry[section][i].done]
                updated2 == [updated EXCEPT !.data[key] = entry2]
            IN [found |-> TRUE,
                store |-> IF AllDone(entry2)
                          THEN [updated2 EXCEPT
                                  !.streak = streakAfterToggle(StreakOr(updated.streak),
                                                               key, t)]
                          ELSE updated2]

\* editItem(section, id, patch) with patch = { title }: threw = TRUE is the
\* TypeError of Object.assign(undefined, patch), raised before setStore
editItem(s, key, section, id, title) ==
    LET updated == EnsureToday(Clone(s), key)
        entry == updated.data[key]
        i == FindIndex(entry[section], id)
    IN IF i = 0 THEN [threw |-> TRUE, store |-> s]
       ELSE [threw |-> FALSE,
             store |-> [updated EXCEPT !.data[key][section][i].title = title]]

\* addItem(section, title): [returned, store]; returned = TRUE is `if (!title) return`
addItem(s, key, t, section, title) ==
    IF title = <<>> THEN [returned |-> TRUE, store |-> s]
    ELSE LET updated == EnsureToday(Clone(s), key)
             item == [id |-> <<section, t>>, title |-> title, done |-> FALSE]
         IN [returned |-> FALSE,
             store |-> [updated EXCEPT
                          !.data[key][section] = Append(@, item)]]

\* the Delete button's handler, once confirmed
deleteItem(s, key, section, id) ==
    LET updated == EnsureToday(Clone(s), key)
    IN [updated EXCEPT
          !.data[key][section] = SelectSeq(@, LAMBDA x : x.id # id)]

\* the notes textarea's onChange
setNotes(s, key, text) ==
    LET updated == EnsureToday(Clone(s), key)
    IN [updated EXCEPT !.data[key].notes = text]

\* resetToday clearing the notes and keeping the items (a faulty variant)
resetTodayKeepsItems(s, key) ==
    LET updated == EnsureToday(Clone(s), key)
    IN [updated EXCEPT !.data[key].notes = updated.template.notes]

\* resetToday()
resetToday(s, key) ==
    LET updated == Clone(s)
    IN [updated EXCEPT !.data = Put(updated.data, key, Clone(updated.template))]

\* the Mark All Done button's handler, once confirmed
markAllDone(s, key) ==
    LET updated == EnsureToday(Clone(s), key)
        entry == updated.data[key]
        done == [entry EXCEPT
                   !.morning = [i \in DOMAIN entry.morning |->
                                   [entry.morning[i] EXCEPT !.done = TRUE]],
                   !.dailyGoals = [i \in DOMAIN entry.dailyGoals |->
                                      [entry.dailyGoals[i] EXCEPT !.done = TRUE]]]
    IN [updated EXCEPT
          !.data[key] = done,
          !.streak = [lastDate |-> key,
                      days |-> StreakOr(updated.streak).days + 1]]

\* clearAll keeping the streak (a faulty variant)
clearAllKeepsStreak(s) ==
    [data |-> <<>>, template |-> s.template, streak |-> s.streak]

\* clearAll(), once confirmed
clearAll(s) ==
    [data |-> <<>>, template |-> s.template, streak |-> NoStreak]

\* exportJSON(): the payload written to daily-tracker-export.json
exportJSON(s) == JSONstringify(s)

\* onload falling back to a fresh store when the text does not parse, as
\* useState's initialiser does (a faulty variant)
onloadResets(s, text) ==
    LET parsed == JSONparse(text)
    IN IF parsed.ok
       THEN [alerted |-> FALSE, store |-> Spread(s, parsed.value)]
       ELSE [alerted |-> FALSE, store |-> DefaultStore]

\* reader.onload of importJSON, in the closure of the render that saw s:
\* [alerted, store]
onload(s, text) ==
    LET parsed == JSONparse(text)
    IN IF parsed.ok
       THEN [alerted |-> FALSE, store |-> Spread(s, parsed.value)]
       ELSE [alerted |-> TRUE, store |-> s]

\* useState's initialiser: raw = Null is localStorage holding nothing
loadStore(raw) ==
    IF raw = Null THEN DefaultStore
    ELSE LET parsed == JSONparse(raw)
         IN IF parsed.ok THEN parsed.value ELSE DefaultStore

---------------------------------------------------------------------------
\* The weekly chart.

\* the characters of a day key, by ascending UTF-16 code unit
CodeUnits == <<"-", "0", "1", "2", "3", "4", "5", "6", "7", "8", "9">>

CharCode(c) == CHOOSE i \in DOMAIN CodeUnits : CodeUnits[i] = c

\* a < b as Array.prototype.sort() compares strings without a comparator
RECURSIVE StrLess(_, _)
StrLess(a, b) ==
    IF a = <<>> THEN b # <<>>
    ELSE IF b = <<>> THEN FALSE
    ELSE IF Head(a) = Head(b) THEN StrLess(Tail(a), Tail(b))
    ELSE CharCode(Head(a)) < CharCode(Head(b))

\* keys.sort() putting the latest key first (a faulty variant)
RECURSIVE SortDescending(_)
SortDescending(keys) ==
    IF keys = <<>> THEN <<>>
    ELSE LET i == CHOOSE j \in DOMAIN keys :
                     \A h \in DOMAIN keys : ~StrLess(keys[j], keys[h])
         IN <<keys[i]>> \o SortDescending(RemoveAt(keys, i))

\* keys.sort() on keys that are pairwise different
RECURSIVE Sort(_)
Sort(keys) ==
    IF keys = <<>> THEN <<>>
    ELSE LET i == CHOOSE j \in DOMAIN keys :
                     \A h \in DOMAIN keys : ~StrLess(keys[h], keys[j])
         IN <<keys[i]>> \o Sort(RemoveAt(keys, i))

\* Object.keys(obj)
ObjectKeys(obj) == SetToSeq(DOMAIN obj)

\* s.slice(-n)
SliceLast(s, n) == SubSeq(s, IF Len(s) > n THEN Len(s) - n + 1 ELSE 1, Len(s))

\* items.filter((x) => x.done).length
DoneCount(items) == Len(SelectSeq(items, LAMBDA x : x.done))

\* Math.round((done / total) * 100) for total > 0: the nearest integer, a half
\* going up
RoundPercent(done, total) == (200 * done + total) \div (2 * total)

\* chartData: the last seven logged days as <<[date, percent]>>
chartData(s) ==
    LET keys == Sort(ObjectKeys(s.data))
        last7 == SliceLast(keys, 7)
    IN [i \in 1..Len(last7) |->
          LET d == s.data[last7[i]]
              total == Len(d.morning) + Len(d.dailyGoals)
              done == DoneCount(d.morning) + DoneCount(d.dailyGoals)
          IN [date |-> last7[i],
              percent |-> IF total # 0 THEN RoundPercent(done, total) ELSE 0]]

---------------------------------------------------------------------------
\* What the user can type, pick and have on disk.

\* an id no item carries
MissingId == <<"none", 0>>

\* titles handed to addItem; " " is a blank
Titles == { <<>>, <<" ", " ", " ">>, <<"Read">> }

\* what may stand in an Add input when its button is clicked
Typed == Titles \cup { <<" ", "Read">> }

\* the answer to prompt("Edit title"): Null is Cancel
PromptAnswers == { Null, <<"Read">> }

NoteTexts == { <<"ok">> }

\* String.prototype.trim on a title
RECURSIVE TrimStart(_)
TrimStart(s) == IF s # <<>> /\ Head(s) = " " THEN TrimStart(Tail(s)) ELSE s

RECURSIVE TrimEnd(_)
TrimEnd(s) ==
    IF s # <<>> /\ s[Len(s)] = " " THEN TrimEnd(SubSeq(s, 1, Len(s) - 1)) ELSE s

Trim(s) == TrimEnd(TrimStart(s))

SmallTemplate ==
    [morning    |-> << Item(<<"m", 1>>, <<"Wake & Hydrate">>) >>,
     dailyGoals |-> << Item(<<"g", 1>>, <<"Top 1 priority">>) >>,
     nutrition  |-> <<>>,
     notes      |-> <<>>]

DoneEntry(template) ==
    [template EXCEPT
       !.morning = [i \in DOMAIN template.morning |->
                       [template.morning[i] EXCEPT !.done = TRUE]],
       !.dailyGoals = [i \in DOMAIN template.dailyGoals |->
                          [template.dailyGoals[i] EXCEPT !.done = TRUE]]]

\* stores an earlier session left in localStorage (or a file holds): one item
\* of 2024-01-10 done after a streak of five days ending 2024-01-09 ...
StoreA ==
    [data |-> Put(<<>>, KeyOfDay(11),
                  [SmallTemplate EXCEPT !.morning[1].done = TRUE]),
     template |-> SmallTemplate,
     streak |-> [lastDate |-> KeyOfDay(10), days |-> 5]]

\* ... and 2023-12-31 completed as the second day of a streak
StoreB ==
    [data |-> Put(<<>>, KeyOfDay(1), DoneEntry(SmallTemplate)),
     template |-> SmallTemplate,
     streak |-> [lastDate |-> KeyOfDay(1), days |-> 2]]

\* an item the user added on an earlier day
Added(n, done) ==
    [id |-> <<"morning", n>>, title |-> <<"Read">>, done |-> done]

\* the entries of eight logged days, 2023-12-31 to 2024-01-07: all done, none,
\* one of two, two of three, one of three, every item deleted, one of two twice
WeekEntries ==
    << DoneEntry(SmallTemplate),
       SmallTemplate,
       [SmallTemplate EXCEPT !.morning[1].done = TRUE],
       [DoneEntry(SmallTemplate) EXCEPT !.morning = Append(@, Added(8, FALSE))],
       [SmallTemplate EXCEPT !.morning = Append(@, Added(10, TRUE))],
       [SmallTemplate EXCEPT !.morning = <<>>, !.dailyGoals = <<>>],
       [SmallTemplate EXCEPT !.dailyGoals[1].done = TRUE],
       [SmallTemplate EXCEPT !.morning[1].done = TRUE] >>

\* ... and more than a week of logged days, the last one not completed
StoreC ==
    [data |-> [key \in {KeyOfDay(d) : d \in 1..8} |->
                 WeekEntries[CHOOSE d \in 1..8 : KeyOfDay(d) = key]],
     template |-> SmallTemplate,
     streak |-> [lastDate |-> KeyOfDay(6), days |-> 1]]

\* how a session may start: what localStorage.getItem(STORAGE_KEY) returns
\* (Null: nothing) and the calendar day, counted from Epoch
Sessions ==
    { <<Null, 11>>, <<NotJSON, 11>>,
      <<JSONstringify(StoreA), 11>>, <<JSONstringify(StoreA), 13>>,
      <<JSONstringify(StoreB), 1>>, <<JSONstringify(StoreC), 9>> }

StartDays == { ses[2] : ses \in Sessions }

\* the JSON files the user may pick for import, besides the last export
Files ==
    { NotJSON,
      JSONstringify([streak |-> [lastDate |-> KeyOfDay(10), days |-> 5]]),
      JSONstringify([streak |-> Null]) }

NoFile == [syntaxOk |-> FALSE, members |-> << <<"none">> >>]

---------------------------------------------------------------------------
\* The state machine.

NoPrev == [today |-> Null, streak |-> Null, key |-> Null]

\* What the handler that ran last leaves on record: the operation, its
\* arguments, how it ended and the todayKey it ran under (a click handler that
\* returned before calling its operation leaves only its name). A toggle records
\* today's entry and the streak it started from (prev) and, when it repeats the
\* toggle the handler before it made, what that one started from (start).
Did(op, section, arg, outcome) ==
    LET toggled == op = "toggleItem" /\ outcome = "set"
        repeats == /\ toggled
                   /\ last.op = "toggleItem" /\ last.outcome = "set"
                   /\ last.section = section /\ last.arg = arg
    IN [op |-> op, section |-> section, arg |-> arg, outcome |-> outcome,
        key |-> todayKey,
        prev |-> IF toggled
                 THEN [today |-> Today(store, todayKey), streak |-> store.streak,
                       key |-> todayKey]
                 ELSE NoPrev,
        repeats |-> repeats,
        start |-> IF repeats THEN last.prev ELSE NoPrev]

\* setStore(s) and the render it causes, which reads the clock for todayKey
SetStore(s) ==
    /\ store' = s
    /\ todayKey' = getTodayKey(DateAt(now))

Ran == nops < MaxOps /\ nops' = nops + 1

\* the ids of the items rendered for a section, and one that is not there
IdsOf(section) ==
    { Today(store, todayKey)[section][i].id :
        i \in DOMAIN Today(store, todayKey)[section] } \cup { MissingId }

Init ==
    \E ses \in Sessions :
        /\ store = loadStore(ses[1])
        /\ now = ses[2] * TicksPerDay
        /\ todayKey = getTodayKey(DateAt(ses[2] * TicksPerDay))
        /\ readers = <<>>
        /\ exported = NoFile
        /\ last = [op |-> "load", section |-> "", arg |-> Null, outcome |-> "set",
                   key |-> Null, prev |-> NoPrev, repeats |-> FALSE,
                   start |-> NoPrev]
        /\ nops = 0

\* the clock advances; nothing renders
Tick ==
    /\ \E d \in StartDays :
          d * TicksPerDay <= now /\ now < (d + MaxDays) * TicksPerDay
    /\ now' = now + 1
    /\ UNCHANGED <<store, todayKey, readers, exported, last, nops>>

ToggleItem(section, id) ==
    /\ Ran
    /\ LET r == toggleItem(store, todayKey, now, section, id)
       IN /\ IF r.found THEN SetStore(r.store) ELSE UNCHANGED <<store, todayKey>>
          /\ last' = Did("toggleItem", section, id,
                         IF r.found THEN "set" ELSE "return")
    /\ UNCHANGED <<now, readers, exported>>

EditItem(section, id, title) ==
    /\ Ran
    /\ LET r == editItem(store, todayKey, section, id, title)
       IN /\ IF r.threw THEN UNCHANGED <<store, todayKey>> ELSE SetStore(r.store)
          /\ last' = Did("editItem", section, id,
                         IF r.threw THEN "TypeError" ELSE "set")
    /\ UNCHANGED <<now, readers, exported>>

\* the Edit button: prompt, then editItem unless cancelled
EditClick(section, id, answer) ==
    IF answer = Null
    THEN /\ Ran
         /\ last' = Did("editClick", "", Null, "return")
         /\ UNCHANGED <<store, todayKey, now, readers, exported>>
    ELSE EditItem(section, id, answer)

AddItem(section, title) ==
    /\ Ran
    /\ LET r == addItem(store, todayKey, now, section, title)
       IN /\ IF r.returned THEN UNCHANGED <<store, todayKey>> ELSE SetStore(r.store)
          /\ last' = Did("addItem", section, title,
                         IF r.returned THEN "return" ELSE "set")
    /\ UNCHANGED <<now, readers, exported>>

\* the Add buttons: el.value.trim(), then addItem unless nothing is left
AddClick(section, typed) ==
    IF Trim(typed) = <<>>
    THEN /\ Ran
         /\ last' = Did("addClick", "", Null, "return")
         /\ UNCHANGED <<store, todayKey, now, readers, exported>>
    ELSE AddItem(section, Trim(typed))

DeleteClick(section, id, confirmed) ==
    /\ Ran
    /\ IF confirmed THEN SetStore(deleteItem(store, todayKey, section, id))
       ELSE UNCHANGED <<store, todayKey>>
    /\ last' = IF confirmed THEN Did("deleteItem", section, id, "set")
               ELSE Did("deleteClick", "", Null, "return")
    /\ UNCHANGED <<now, readers, exported>>

NotesChange(text) ==
    /\ Ran
    /\ SetStore(setNotes(store, todayKey, text))
    /\ last' = Did("notes", "", text, "set")
    /\ UNCHANGED <<now, readers, exported>>

ResetToday ==
    /\ Ran
    /\ SetStore(resetToday(store, todayKey))
    /\ last' = Did("resetToday", "", Null, "set")
    /\ UNCHANGED <<now, readers, exported>>

MarkAllDoneClick(confirmed) ==
    /\ Ran
    /\ IF confirmed THEN SetStore(markAllDone(store, todayKey))
       ELSE UNCHANGED <<store, todayKey>>
    /\ last' = Did("markAllDone", "", Null, IF confirmed THEN "set" ELSE "return")
    /\ UNCHANGED <<now, readers, exported>>

ClearAll(confirmed) ==
    /\ Ran
    /\ IF confirmed THEN SetStore(clearAll(store))
       ELSE UNCHANGED <<store, todayKey>>
    /\ last' = Did("clearAll", "", Null, IF confirmed THEN "set" ELSE "return")
    /\ UNCHANGED <<now, readers, exported>>

\* exportJSON(): the payload goes to a file; the store is not touched, so the
\* handler is neither counted against MaxOps nor recorded in last
ExportJSON ==
    /\ exported' = exportJSON(store)
    /\ UNCHANGED <<store, todayKey, now, readers, last, nops>>

\* importJSON(file): the read starts; onload keeps this render's store
ImportJSON(file) ==
    /\ Ran
    /\ readers' = Append(readers, [text |-> file, store |-> store])
    /\ last' = Did("importJSON", "", Null, "return")
    /\ UNCHANGED <<store, todayKey, now, exported>>

\* a read completes: reader.onload
OnLoad(i) ==
    /\ i \in DOMAIN readers
    /\ LET r == onload(readers[i].store, readers[i].text)
       IN /\ IF r.alerted THEN UNCHANGED <<store, todayKey>> ELSE SetStore(r.store)
          /\ last' = Did("onload", "", readers[i].text,
                         IF r.alerted THEN "alert" ELSE "set")
    /\ readers' = RemoveAt(readers, i)
    /\ UNCHANGED <<now, exported, nops>>

\* the page is loaded again: the effect has stored JSON.stringify(store)
Reload ==
    /\ Ran
    /\ SetStore(loadStore(JSONstringify(store)))
    /\ readers' = <<>>
    /\ last' = Did("load", "", Null, "set")
    /\ UNCHANGED <<now, exported>>

Next ==
    \/ Tick
    \/ \E section \in Sections : \E id \in IdsOf(section) : ToggleItem(section, id)
    \/ \E section \in Sections : \E id \in IdsOf(section) :
          EditItem(section, id, <<"Read">>)
    \/ \E section \in Sections : \E id \in IdsOf(section) \ {MissingId},
          answer \in PromptAnswers : EditClick(section, id, answer)
    \/ \E section \in Sections, title \in Titles : AddItem(section, title)
    \/ \E section \in Sections, typed \in Typed : AddClick(section, typed)
    \/ \E section \in Sections : \E id \in IdsOf(section), confirmed \in BOOLEAN :
          DeleteClick(section, id, confirmed)
    \/ \E text \in NoteTexts : NotesChange(text)
    \/ ResetToday
    \/ \E confirmed \in BOOLEAN : MarkAllDoneClick(confirmed)
    \/ \E confirmed \in BOOLEAN : ClearAll(confirmed)
    \/ ExportJSON
    \/ \E file \in Files \cup ({exported} \ {NoFile}) : ImportJSON(file)
    \/ \E i \in DOMAIN readers : OnLoad(i)
    \/ Reload

Spec == Init /\ [][Next]_vars

---------------------------------------------------------------------------
\* The second App (src/src/components/ProgressCircle.jsx, from line 72): its
\* store is [entries, streak], kept under the key "routine-store"; todayKey is a
\* module constant, read from the clock once when the page loads. Its state is
\* held in the same variables store, todayKey, now, last and nops; readers and
\* exported are not used.

\* new Date(ms).toISOString().slice(0, 10) when ms is the clock reading t
isoDay(t) == getTodayKey(DateAt(t))

NoStreakV2 == [days |-> 0, lastCompletedDay |-> Null]

DefaultStoreV2 == [entries |-> <<>>, streak |-> NoStreakV2]

ItemV2(id, text) == [id |-> id, text |-> text, done |-> FALSE]

\* the entry rendered for a day that has none stored
DefaultEntryV2 ==
    [morning    |-> << ItemV2(1, <<"Wake & Hydrate">>),
                       ItemV2(2, <<"Stretch / Walk 20m">>),
                       ItemV2(3, <<"Shower & Get Ready">>) >>,
     dailyGoals |-> << ItemV2(4, <<"Top 1 priority">>),
                       ItemV2(5, <<"Coding / Learning 1 hour">>) >>,
     notes      |-> <<>>]

\* loadStore(): raw = Null is localStorage holding nothing
loadStoreV2(raw) ==
    IF raw = Null THEN DefaultStoreV2
    ELSE LET parsed == JSONparse(raw)
         IN IF parsed.ok THEN parsed.value ELSE DefaultStoreV2

\* const todayEntry = store.entries[todayKey] || { ... }
todayEntry(s, key) ==
    IF key \in DOMAIN s.entries THEN s.entries[key] ELSE DefaultEntryV2

\* updateStore(updates) in the render that saw s: the value given to setStore
\* and written to localStorage
updateStore(s, updates) == Spread(s, updates)

\* updateEntry(field, value) in the render that saw s
updateEntry(s, key, field, value) ==
    updateStore(s, [entries |->
                      Put(s.entries, key,
                          Put(todayEntry(s, key), field, value))])

\* items.map((i) => ({ ...i, done }))
WithDone(items, done) ==
    [i \in DOMAIN items |-> [items[i] EXCEPT !.done = done]]

\* the streak effect of the render that saw s, run when the clock reads t: the
\* store it hands to updateStore, or s when it does nothing
streakEffect(s, key, t) ==
    LET entry == todayEntry(s, key)
    IN IF AllDone(entry) /\ s.streak.lastCompletedDay # key
       THEN LET yesterdayKeyV2 == isoDay(t - TicksPerDay)
                continueStreak == s.streak.lastCompletedDay = yesterdayKeyV2
            IN updateStore(s, [streak |->
                    [days |-> IF continueStreak THEN s.streak.days + 1 ELSE 1,
                     lastCompletedDay |-> key]])
       ELSE s


\* toggleItem(section, id)
toggleItemV2(s, key, section, id) ==
    LET items == todayEntry(s, key)[section]
    IN updateEntry(s, key, section,
                   [i \in DOMAIN items |->
                       IF items[i].id = id
                       THEN [items[i] EXCEPT !.done = ~items[i].done]
                       ELSE items[i]])

\* addItem(section, text): [returned, store]; returned = TRUE is
\* `if (!text.trim()) return`
addItemV2(s, key, t, section, text) ==
    IF Trim(text) = <<>> THEN [returned |-> TRUE, store |-> s]
    ELSE [returned |-> FALSE,
          store |-> updateEntry(s, key, section,
                                Append(todayEntry(s, key)[section],
                                       [id |-> t, text |-> text, done |-> FALSE]))]

\* deleteItem(section, id)
deleteItemV2(s, key, section, id) ==
    updateEntry(s, key, section,
                SelectSeq(todayEntry(s, key)[section], LAMBDA i : i.id # id))

\* editItem(section, id, text)
editItemV2(s, key, section, id, text) ==
    LET items == todayEntry(s, key)[section]
    IN updateEntry(s, key, section,
                   [i \in DOMAIN items |->
                       IF items[i].id = id THEN [items[i] EXCEPT !.text = text]
                       ELSE items[i]])

\* resetToday(): the values of its two setStore calls, in order
resetTodayV2(s, key) ==
    << updateEntry(s, key, "morning", WithDone(todayEntry(s, key).morning, FALSE)),
       updateEntry(s, key, "dailyGoals",
                   WithDone(todayEntry(s, key).dailyGoals, FALSE)) >>

\* the Mark All Done button's handler: the values of its two setStore calls, in
\* order
markAllDoneV2(s, key) ==
    << updateEntry(s, key, "morning", WithDone(todayEntry(s, key).morning, TRUE)),
       updateEntry(s, key, "dailyGoals",
                   WithDone(todayEntry(s, key).dailyGoals, TRUE)) >>

\* a store an earlier session left: 2024-01-10 with one goal open, after five
\* completed days
StoreV2A ==
    [entries |-> Put(<<>>, KeyOfDay(11),
                     [DefaultEntryV2 EXCEPT
                        !.morning = WithDone(DefaultEntryV2.morning, TRUE),
                        !.dailyGoals[1].done = TRUE]),
     streak |-> [days |-> 5, lastCompletedDay |-> KeyOfDay(10)]]

\* what localStorage.getItem("routine-store") may return when the page loads
SavedV2 == { Null, NotJSON, JSONstringify(StoreV2A) }

\* the day the page loads, counted from Epoch
StartDayV2 == 11

\* the setStore calls a handler made, in order, each with a value built from
\* the store of the handler's render: the next render sees the last value, and
\* its streak effect then runs
SetStoreV2(calls) ==
    /\ store' = streakEffect(calls[Len(calls)], todayKey, now)
    /\ UNCHANGED todayKey

DidV2(op, section, arg, outcome) ==
    [op |-> op, section |-> section, arg |-> arg, outcome |-> outcome,
     key |-> todayKey, prev |-> NoPrev, repeats |-> FALSE, start |-> NoPrev]

\* the ids of the items rendered for a section
IdsOfV2(section) ==
    { todayEntry(store, todayKey)[section][i].id :
        i \in DOMAIN todayEntry(store, todayKey)[section] }

\* the page loads: first render, then the streak effect
InitV2 ==
    \E raw \in SavedV2 :
        /\ now = StartDayV2 * TicksPerDay
        /\ todayKey = isoDay(StartDayV2 * TicksPerDay)
        /\ store = streakEffect(loadStoreV2(raw), isoDay(StartDayV2 * TicksPerDay),
                                StartDayV2 * TicksPerDay)
        /\ readers = <<>>
        /\ exported = NoFile
        /\ last = DidV2("load", "", Null, "set")
        /\ nops = 0


ToggleItemV2(section, id) ==
    /\ Ran
    /\ SetStoreV2(<< toggleItemV2(store, todayKey, section, id) >>)
    /\ last' = DidV2("toggleItem", section, id, "set")
    /\ UNCHANGED <<now, readers, exported>>

\* onAdd of the section's AddItemInput
AddItemV2(section, text) ==
    /\ Ran
    /\ LET r == addItemV2(store, todayKey, now, section, text)
       IN /\ IF r.returned THEN UNCHANGED <<store, todayKey>>
             ELSE SetStoreV2(<< r.store >>)
          /\ last' = DidV2("addItem", section, text,
                           IF r.returned THEN "return" ELSE "set")
    /\ UNCHANGED <<now, readers, exported>>

DeleteItemV2(section, id) ==
    /\ Ran
    /\ SetStoreV2(<< deleteItemV2(store, todayKey, section, id) >>)
    /\ last' = DidV2("deleteItem", section, id, "set")
    /\ UNCHANGED <<now, readers, exported>>

\* the Edit button: prompt, then editItem if the answer is not empty
EditClickV2(section, id, answer) ==
    /\ Ran
    /\ IF answer = Null THEN UNCHANGED <<store, todayKey>>
       ELSE SetStoreV2(<< editItemV2(store, todayKey, section, id, answer) >>)
    /\ last' = IF answer = Null THEN DidV2("editClick", "", Null, "return")
               ELSE DidV2("editItem", section, id, "set")
    /\ UNCHANGED <<now, readers, exported>>

ResetTodayV2 ==
    /\ Ran
    /\ SetStoreV2(resetTodayV2(store, todayKey))
    /\ last' = DidV2("resetToday", "", Null, "set")
    /\ UNCHANGED <<now, readers, exported>>

MarkAllDoneClickV2 ==
    /\ Ran
    /\ SetStoreV2(markAllDoneV2(store, todayKey))
    /\ last' = DidV2("markAllDone", "", Null, "set")
    /\ UNCHANGED <<now, readers, exported>>

NextV2 ==
    \/ Tick
    \/ \E section \in Sections : \E id \in IdsOfV2(section) :
          ToggleItemV2(section, id)
    \/ \E section \in Sections, text \in Typed : AddItemV2(section, text)
    \/ \E section \in Sections : \E id \in IdsOfV2(section) :
          DeleteItemV2(section, id)
    \/ \E section \in Sections : \E id \in IdsOfV2(section),
          answer \in PromptAnswers : EditClickV2(section, id, answer)
    \/ ResetTodayV2
    \/ MarkAllDoneClickV2

SpecV2 == InitV2 /\ [][NextV2]_vars

---------------------------------------------------------------------------
\* Vocabulary of the properties.

\* a handler counted in nops ran in this step, and it was op
HandlerRan(op) == nops' = nops + 1 /\ last'.op = op

\* reader.onload ran in this step
LoadDone == nops' = nops /\ Len(readers') = Len(readers) - 1 /\ last'.op = "onload"

LastStartDay == CHOOSE m \in StartDays : \A d \in StartDays : d <= m

Days == 0..(LastStartDay + MaxDays + 1)

\* the key of the calendar day before the day whose key is given
KeyBefore(key) ==
    IF \E d \in Days : KeyOfDay(d + 1) = key
    THEN KeyOfDay(CHOOSE d \in Days : KeyOfDay(d + 1) = key)
    ELSE <<"?">>

\* the streak evaluator as specified: counted already, continued or restarted
EvaluatedStreak(streak, key) ==
    IF streak.lastDate = key THEN streak
    ELSE [lastDate |-> key,
          days |-> IF streak.lastDate = KeyBefore(key) THEN streak.days + 1 ELSE 1]

\* the done flags of an entry's two sections
Flags(entry) ==
    [section \in Sections |->
        [i \in DOMAIN entry[section] |-> entry[section][i].done]]

\* the calendar day, counted from Epoch, that a day key names
DayOf(key) == CHOOSE d \in Days : KeyOfDay(d) = key

\* how many items of a list are done
NumDone(items) == Cardinality({i \in DOMAIN items : items[i].done})

\* the handlers that change today's entry
MutationOps ==
    {"toggleItem", "editItem", "addItem", "deleteItem", "notes", "resetToday",
     "markAllDone"}

\* one of them ran in this step and reached setStore
Mutated == nops' = nops + 1 /\ last'.op \in MutationOps /\ last'.outcome = "set"

\* entry is what the handler on record in rec makes of the entry T
ChangeOf(rec, T, entry) ==
    LET section == rec.section
        arg == rec.arg
    IN CASE rec.op = "toggleItem" ->
              \E i \in DOMAIN T[section] :
                 /\ T[section][i].id = arg
                 /\ entry = [T EXCEPT ![section][i].done = ~T[section][i].done]
         [] rec.op = "editItem" ->
              \E i \in DOMAIN T[section] :
                 /\ T[section][i].id = arg
                 /\ entry = [T EXCEPT ![section][i].title = entry[section][i].title]
         [] rec.op = "addItem" ->
              /\ Len(entry[section]) = Len(T[section]) + 1
              /\ entry = [T EXCEPT ![section] =
                            Append(T[section],
                                   [id |-> entry[section][Len(entry[section])].id,
                                    title |-> arg, done |-> FALSE])]
         [] rec.op = "deleteItem" ->
              entry = [T EXCEPT ![section] =
                         SelectSeq(T[section], LAMBDA x : x.id # arg)]
         [] rec.op = "notes" -> entry = [T EXCEPT !.notes = arg]
         [] rec.op = "resetToday" -> entry = T
         [] rec.op = "markAllDone" ->
              entry = [T EXCEPT
                         !.morning = [i \in DOMAIN T.morning |->
                                         [T.morning[i] EXCEPT !.done = TRUE]],
                         !.dailyGoals = [i \in DOMAIN T.dailyGoals |->
                                            [T.dailyGoals[i] EXCEPT !.done = TRUE]]]

---------------------------------------------------------------------------
\* C1: a toggleItem call that leaves every item of today's two sections done
\* while streak.lastDate differs from today's key sets lastDate to today's key
\* and days to the previous days + 1 if the previous lastDate was the calendar
\* day before today, and to 1 otherwise.
C1_CompletingToggleCountsTheDay ==
    [][ ( /\ HandlerRan("toggleItem") /\ last'.outcome = "set"
          /\ AllDone(store'.data[todayKey])
          /\ StreakOr(store.streak).lastDate # todayKey )
        => store'.streak =
             [lastDate |-> todayKey,
              days |-> IF StreakOr(store.streak).lastDate = KeyBefore(todayKey)
                       THEN StreakOr(store.streak).days + 1 ELSE 1] ]_vars

\* C2: markAllDone sets done on every item of both sections of today's entry
\* and changes the streak exactly as the streak evaluator would: unchanged if
\* lastDate is already today's key, days + 1 if lastDate is yesterday, else 1.
C2_MarkAllDoneCountsAsEvaluator ==
    [][ (HandlerRan("markAllDone") /\ last'.outcome = "set")
        => /\ AllDone(store'.data[todayKey])
           /\ store'.streak = EvaluatedStreak(StreakOr(store.streak), todayKey) ]_vars

\* C3: once streak.lastDate equals today's key, no toggle of that day changes
\* the streak; and a toggle that does change the streak leaves lastDate at the
\* key it ran under, so a day is counted at most once.
C3_CountedOncePerDay ==
    [][ HandlerRan("toggleItem")
        => /\ StreakOr(store.streak).lastDate = todayKey
                => store'.streak = store.streak
           /\ store'.streak # store.streak
                => store'.streak.lastDate = todayKey ]_vars

\* a day already counted was un-completed and is completed again by a toggle
C3_Witness ==
    /\ last.op = "toggleItem" /\ last.outcome = "set"
    /\ last.prev.streak.lastDate = last.key
    /\ ~AllDone(last.prev.today)
    /\ AllDone(store.data[last.key])
    /\ store.streak = last.prev.streak
    /\ store.streak.days = 2

\* C4 as stated: toggling an existing item twice in succession returns every
\* done flag of today's entry and the streak to their values before the first
\* toggle.
C4_ToggleTwiceRestoresAll ==
    last.repeats
      => /\ Flags(Today(store, todayKey)) = Flags(last.start.today)
         /\ store.streak = last.start.streak

\* C4 as amended: toggling an existing item twice in succession under one
\* today's key returns every done flag of today's entry to its value before the
\* first toggle. The streak is back at its earlier value too, unless one of the
\* two toggles left every item done while streak.lastDate differed from today's
\* key: then lastDate is today's key, and the other toggle does not undo that.
C4_ToggleTwiceRestoresFlags ==
    (last.repeats /\ last.start.key = last.key)
      => /\ Flags(store.data[last.key]) = Flags(last.start.today)
         /\ IF /\ StreakOr(last.start.streak).lastDate # last.key
               /\ (AllDone(last.start.today) \/ AllDone(last.prev.today))
            THEN store.streak.lastDate = last.key /\ store.streak.days >= 1
            ELSE store.streak = last.start.streak

\* the pair of toggles restored the flags and left the streak advanced
C4_Witness ==
    /\ last.repeats /\ last.start.key = last.key
    /\ Flags(store.data[last.key]) = Flags(last.start.today)
    /\ last.start.streak = [lastDate |-> KeyOfDay(10), days |-> 5]
    /\ store.streak = [lastDate |-> KeyOfDay(11), days |-> 6]

\* C5: toggleItem, editItem and deleteItem given an id that matches no item
\* never raise and leave the items of today's entry and the streak unchanged.
C5_MissingIdIsSilentNoOp ==
    [][ ( /\ nops' = nops + 1
          /\ last'.op \in {"toggleItem", "editItem", "deleteItem"}
          /\ last'.arg = MissingId )
        => /\ last'.outcome # "TypeError"
           /\ \A section \in Sections :
                 Today(store', todayKey)[section] = Today(store, todayKey)[section]
           /\ store'.streak = store.streak ]_vars

\* C6: addItem with an empty or all-whitespace title never modifies the store.
C6_BlankTitleNeverAdds ==
    [][ (HandlerRan("addItem") /\ Trim(last'.arg) = <<>>) => store' = store ]_vars

\* C7: the store after reader.onload is the shallow merge of the imported
\* top-level fields onto the store as it is when the callback runs.
C7_ImportMergesOntoCurrentStore ==
    [][ \A i \in DOMAIN readers :
          ( /\ LoadDone /\ readers' = RemoveAt(readers, i)
            /\ readers[i].text.syntaxOk )
          => store' = Spread(store, JSONparse(readers[i].text).value) ]_vars

\* C8: an import whose text is not valid JSON raises the alert and leaves the
\* store unchanged.
C8_InvalidImportLeavesStore ==
    [][ \A i \in DOMAIN readers :
          ( /\ LoadDone /\ readers' = RemoveAt(readers, i)
            /\ ~readers[i].text.syntaxOk )
          => last'.outcome = "alert" /\ store' = store ]_vars

\* an invalid file was read while the store held more than a fresh one
C8_Witness ==
    /\ last.op = "onload" /\ last.outcome = "alert" /\ last.arg = NotJSON
    /\ store.data # <<>>
    /\ store.streak # NoStreak

C10_ClearAllKeepsTemplate ==
    [][ HandlerRan("clearAll")
        => IF last'.outcome = "set"
           THEN /\ store'.data = <<>>
                /\ store'.streak = NoStreak
                /\ store'.template = store.template
           ELSE store' = store ]_vars

\* a store with logged days and a streak has been cleared
C10_Witness ==
    /\ last.op = "clearAll" /\ last.outcome = "set"
    /\ store = [data |-> <<>>, template |-> SmallTemplate, streak |-> NoStreak]

C12_EntryCreatedOnFirstMutation ==
    [][ /\ (DOMAIN store'.data \ DOMAIN store.data # {} /\ ~LoadDone)
              => /\ Mutated
                 /\ DOMAIN store'.data = DOMAIN store.data \cup {todayKey}
        /\ (Mutated /\ todayKey \notin DOMAIN store.data)
              => /\ todayKey \in DOMAIN store'.data
                 /\ ChangeOf(last', store.template, store'.data[todayKey])
                 /\ store'.data = Put(store.data, todayKey, store'.data[todayKey])
        /\ (Mutated /\ todayKey \in DOMAIN store.data /\ last'.op # "resetToday")
              => ChangeOf(last', store.data[todayKey], store'.data[todayKey])
      ]_vars

\* the first toggle of a day with no entry stored the template with one item
\* done, next to the entry of an earlier day
C12_Witness ==
    /\ last.op = "toggleItem" /\ last.outcome = "set" /\ nops = 1
    /\ last.key = KeyOfDay(13)
    /\ DOMAIN store.data = {KeyOfDay(11), KeyOfDay(13)}
    /\ store.data[KeyOfDay(13)] = [store.template EXCEPT !.morning[1].done = TRUE]

\* C13: in every state the ids of the items of each section of today's entry
\* are pairwise distinct, ids made by addItem from the section name and
\* Date.now() included.
C13_IdsPairwiseDistinct ==
    \A section \in Sections :
       \A i, j \in DOMAIN Today(store, todayKey)[section] :
          i # j => Today(store, todayKey)[section][i].id
                     # Today(store, todayKey)[section][j].id

C15_YesterdayIsDayBeforeStoredKey ==
    [][ ( /\ HandlerRan("toggleItem") /\ last'.outcome = "set"
          /\ AllDone(store'.data[todayKey])
          /\ StreakOr(store.streak).lastDate # todayKey )
        => /\ yesterdayKey(now) = KeyBefore(todayKey)
           /\ StreakOr(store.streak).lastDate = KeyBefore(todayKey)
                 => store'.streak.days = StreakOr(store.streak).days + 1 ]_vars

\* C16: in the second App, one click on Mark All Done leaves every item of the
\* morning and the dailyGoals sections of today's entry done.
C16_MarkAllDoneMarksBothSections ==
    [][ HandlerRan("markAllDone")
        => /\ todayKey \in DOMAIN store'.entries
           /\ AllDone(store'.entries[todayKey]) ]_vars

====
